---- MODULE Spec2Model ----
(***************************************************************************)
(* A model of random_structures.generating_functions: the stack-based     *)
(* generation engine (Structure_Generator), its composite and simple      *)
(* handlers, the class-level reference table GLOBALS, the Scope counters  *)
(* and the retry loop of the regex synthesizer (word_from_regex).         *)
(***************************************************************************)
EXTENDS Integers, Sequences, FiniteSets, TLC

(***************************************************************************)
(* Bounds of the model                                                     *)
(***************************************************************************)
\* number of Structure_Generator instances constructed in one process
MaxGens == 2
\* largest max_depth argument given to the constructor
MaxDepthArg == 2
\* largest max_size argument given to the constructor
MaxSizeArg == 3
\* largest max_depth of the self-referential record (test_depth's "depth")
MaxChain == 3
\* largest repeat of the enum-named key (test_girth_and_enum's "girth")
MaxGirth == 3
\* largest min_length given to word_from_regex
MaxMinLength == 2
\* most repetitions beyond its minimum that a repeat makes in one attempt
MaxOptional == 2

(***************************************************************************)
(* Python's dict.get: an optional field is <<>> (absent) or <<x>>.         *)
(***************************************************************************)
None == <<>>
Some(x) == <<x>>
Get(o, default) == IF o = <<>> THEN default ELSE o[1]

(***************************************************************************)
(* JSON values held by Value.value                                         *)
(***************************************************************************)
Null == [t |-> "null"]
Str(s) == [t |-> "str", s |-> s]
Int_(i) == [t |-> "int", i |-> i]
List(items) == [t |-> "list", items |-> items]
\* a dict keeps its entries in insertion order
Dict(entries) == [t |-> "dict", entries |-> entries]
\* the record handler's list of (name, value) pairs of Values
Pairs(p) == [t |-> "pairs", p |-> p]
\* the array handler's list of element Values
Elems(e) == [t |-> "elems", e |-> e]

(***************************************************************************)
(* Specification nodes.  A node is named by an identifier <<family, n>>;  *)
(* children are held by identifier, as Python holds them by reference.    *)
(***************************************************************************)
BlankSpec ==
  [type |-> None, method |-> None, max_depth |-> None, store_ref |-> None,
   load_ref |-> None, keys |-> None, type_elements |-> None,
   min_length |-> None, max_length |-> None, options |-> None,
   value |-> None, pattern |-> None, parameters |-> None]

\* val.specification = None (a choice option without "value")
NoneSpec == <<"None", 0>>
\* the literal {}
EmptySpec == <<"empty", 0>>

BlankKey == [name |-> None, value |-> None, repeat |-> None, chance |-> None]
\* a key's name: a plain string or a specification (a dict)
NameStr(s) == [isdict |-> FALSE, s |-> s, id |-> EmptySpec]
NameSpec(id) == [isdict |-> TRUE, s |-> "", id |-> id]
\* a key's chance: null, a number or a string
ChanceNull == [kind |-> "none", num |-> 0, str |-> ""]
ChanceNum(p) == [kind |-> "num", num |-> p, str |-> ""]
ChanceStr(s) == [kind |-> "str", num |-> 0, str |-> s]

BlankOption == [chance |-> None, value |-> None]

Fixed(v) == [BlankSpec EXCEPT !.type = Some("fixed"), !.value = Some(v)]
LoadRef(name) == [BlankSpec EXCEPT !.load_ref = Some(name)]

SpecNode(id) ==
  LET f == id[1]
      n == id[2]
  IN CASE f = "empty" -> BlankSpec
     \* tests/test_records.py test_depth, the key read as the code reads it
       [] f = "selfrec" ->
            [BlankSpec EXCEPT !.type = Some("record"),
               !.store_ref = Some("ref_name"), !.max_depth = Some(n),
               !.keys = Some(<<[BlankKey EXCEPT !.name = Some(NameStr("sub")),
                                   !.value = Some(<<"load_ref_name", 0>>)]>>)]
       [] f = "load_ref_name" -> LoadRef("ref_name")
     \* tests/test_records.py test_girth_and_enum
       [] f = "enumrec" ->
            [BlankSpec EXCEPT !.type = Some("record"),
               !.keys = Some(<<[BlankKey EXCEPT
                                   !.name = Some(NameSpec(<<"enum", 0>>)),
                                   !.repeat = Some(n)]>>)]
       [] f = "enum" ->
            [BlankSpec EXCEPT !.type = Some("string"),
               !.method = Some("enum"), !.pattern = Some("key_%04d")]
     \* an array whose elements refer back to it
       [] f = "arrcycle" ->
            [BlankSpec EXCEPT !.type = Some("array"),
               !.store_ref = Some("arr"), !.min_length = Some(2),
               !.max_length = Some(2),
               !.type_elements = Some(<<"load_arr", 0>>)]
       [] f = "load_arr" -> LoadRef("arr")
     \* a choice whose only option refers back to it
       [] f = "choicecycle" ->
            [BlankSpec EXCEPT !.type = Some("choice"),
               !.store_ref = Some("c"),
               !.options = Some(<<[BlankOption EXCEPT
                                     !.value = Some(<<"load_c", 0>>)]>>)]
       [] f = "load_c" -> LoadRef("c")
     \* a choice with explicit and implicit chances: 25, 50 (= 100/2)
       [] f = "choice2" ->
            [BlankSpec EXCEPT !.type = Some("choice"),
               !.options = Some(<<[BlankOption EXCEPT !.chance = Some(25),
                                     !.value = Some(<<"fixa", 0>>)],
                                  [BlankOption EXCEPT
                                     !.value = Some(<<"fixb", 0>>)]>>)]
       [] f = "fixa" -> Fixed(Str("a"))
       [] f = "fixb" -> Fixed(Str("b"))
     \* keys whose presence depends on the keys seen so far
       [] f = "flagrec" ->
            [BlankSpec EXCEPT !.type = Some("record"),
               !.keys = Some(<<
                 [BlankKey EXCEPT !.name = Some(NameStr("flag")),
                    !.chance = Some(ChanceNum(50)),
                    !.value = Some(<<"fixa", 0>>)],
                 [BlankKey EXCEPT !.name = Some(NameStr("unless")),
                    !.chance = Some(ChanceStr("!flag")),
                    !.value = Some(<<"fixa", 0>>)],
                 [BlankKey EXCEPT !.name = Some(NameStr("when")),
                    !.chance = Some(ChanceStr("flag")),
                    !.value = Some(<<"fixb", 0>>)]>>)]
     \* a choice between n options, none of which gives a chance
       [] f = "choices" ->
            [BlankSpec EXCEPT !.type = Some("choice"),
               !.options = Some([i \in 1..n |->
                                  [BlankOption EXCEPT
                                     !.value = Some(<<"fixa", 0>>)]])]
     \* malformed: a choice option without "value"
       [] f = "badchoice" ->
            [BlankSpec EXCEPT !.type = Some("choice"),
               !.options = Some(<<BlankOption>>)]
     \* malformed: a record key without "name"
       [] f = "badrec" ->
            [BlankSpec EXCEPT !.type = Some("record"),
               !.keys = Some(<<[BlankKey EXCEPT
                                   !.value = Some(<<"fixa", 0>>)]>>)]
     \* malformed: min_length > max_length
       [] f = "badarr" ->
            [BlankSpec EXCEPT !.type = Some("array"),
               !.min_length = Some(2), !.max_length = Some(1)]
     \* a load_ref that no store_ref of this specification registers
       [] f = "load_nope" -> LoadRef("ref_name")
       [] f = "load_none" -> LoadRef("nope")
     \* two nodes that load each other
       [] f = "ping" ->
            [BlankSpec EXCEPT !.type = Some("array"),
               !.store_ref = Some("ping"), !.load_ref = Some("pong"),
               !.type_elements = Some(<<"pong", 0>>)]
       [] f = "pong" ->
            [BlankSpec EXCEPT !.store_ref = Some("pong"),
               !.load_ref = Some("ping")]
     \* a record deeper than the generator's default, holding unknown
     \* references beside a constant
       [] f = "deeprec" ->
            [BlankSpec EXCEPT !.type = Some("record"),
               !.max_depth = Some(MaxDepthArg + 1),
               !.keys = Some(<<
                 [BlankKey EXCEPT !.name = Some(NameStr("x")),
                    !.value = Some(<<"load_none", 0>>)],
                 [BlankKey EXCEPT !.name = Some(NameStr("y")),
                    !.value = Some(<<"fixb", 0>>)],
                 [BlankKey EXCEPT !.name = Some(NameStr("z")),
                    !.value = Some(<<"load_nope", 0>>)]>>)]
     \* an unregistered (type, method)
       [] f = "nulltype" -> [BlankSpec EXCEPT !.type = Some("null")]
     \* an array of enum strings, default lengths (0 .. 0 + 4)
       [] f = "enumarr" ->
            [BlankSpec EXCEPT !.type = Some("array"),
               !.type_elements = Some(<<"enum", 0>>)]
     \* an array of three constants
       [] f = "fixarr" ->
            [BlankSpec EXCEPT !.type = Some("array"),
               !.min_length = Some(3), !.max_length = Some(3),
               !.type_elements = Some(<<"fixa", 0>>)]
     \* a record whose enum-named keys hold arrays of enums and an enum, all
     \* of one pattern, deep enough for the enums of the arrays to be made
       [] f = "enumnest" ->
            [BlankSpec EXCEPT !.type = Some("record"), !.max_depth = Some(3),
               !.keys = Some(<<
                 [BlankKey EXCEPT !.name = Some(NameSpec(<<"enum", 0>>)),
                    !.value = Some(<<"enumpair", 0>>), !.repeat = Some(2)],
                 [BlankKey EXCEPT !.name = Some(NameSpec(<<"count", 0>>)),
                    !.value = Some(<<"enum", 0>>)]>>)]
       [] f = "enumpair" ->
            [BlankSpec EXCEPT !.type = Some("array"), !.max_depth = Some(3),
               !.min_length = Some(2), !.max_length = Some(2),
               !.type_elements = Some(<<"enumdeep", 0>>)]
       [] f = "enumdeep" ->
            [BlankSpec EXCEPT !.type = Some("string"), !.max_depth = Some(3),
               !.method = Some("enum"), !.pattern = Some("key_%04d")]
     \* an enum without "pattern": "%d"
       [] f = "count" ->
            [BlankSpec EXCEPT !.type = Some("string"), !.method = Some("enum")]
     \* a constant that is cut at every depth
       [] f = "shallow" ->
            [Fixed(Str("b")) EXCEPT !.max_depth = Some(0)]
       [] f = "shallowenum" ->
            [BlankSpec EXCEPT !.type = Some("string"), !.max_depth = Some(0),
               !.method = Some("enum"), !.pattern = Some("key_%04d")]
     \* a record with a kept pair, a pair whose value is cut, a pair whose
     \* name is cut and an array
       [] f = "mixrec" ->
            [BlankSpec EXCEPT !.type = Some("record"),
               !.keys = Some(<<
                 [BlankKey EXCEPT !.name = Some(NameStr("a")),
                    !.value = Some(<<"fixa", 0>>)],
                 [BlankKey EXCEPT !.name = Some(NameStr("b")),
                    !.value = Some(<<"shallow", 0>>)],
                 [BlankKey EXCEPT !.name = Some(NameSpec(<<"shallowenum", 0>>)),
                    !.value = Some(<<"fixa", 0>>)],
                 [BlankKey EXCEPT !.name = Some(NameStr("c")),
                    !.value = Some(<<"mixarr", 0>>)]>>)]
     \* an array of two elements, each a constant or cut
       [] f = "mixarr" ->
            [BlankSpec EXCEPT !.type = Some("array"),
               !.min_length = Some(2), !.max_length = Some(2),
               !.type_elements = Some(<<"mixchoice", 0>>)]
       [] f = "mixchoice" ->
            [BlankSpec EXCEPT !.type = Some("choice"),
               !.options = Some(<<[BlankOption EXCEPT !.chance = Some(50),
                                     !.value = Some(<<"fixa", 0>>)],
                                  [BlankOption EXCEPT
                                     !.value = Some(<<"shallow", 0>>)]>>)]
     \* tests/test_numbers.py: "number" is an alias of "integer"
       [] f = "number" ->
            [BlankSpec EXCEPT !.type = Some("number"),
               !.parameters = Some([min_val |-> 0, max_val |-> 1])]

\* the specifications given to the first generator of a process
Roots ==
  {<<"selfrec", d>> : d \in 1..MaxChain} \cup
  {<<"enumrec", g>> : g \in 1..MaxGirth} \cup
  {<<f, 0>> : f \in {"empty", "arrcycle", "choicecycle", "choice2",
                     "flagrec", "badchoice", "badrec", "badarr", "deeprec",
                     "nulltype", "enumarr", "fixarr", "number", "load_none",
                     "load_nope", "ping", "enumnest", "mixrec",
                     "mixarr"}} \cup
  {<<"choices", n>> : n \in {0, 3, 17}}
\* the specifications given to the generators constructed after it
LaterRoots == {<<"selfrec", 1>>, <<"fixa", 0>>}


(***************************************************************************)
(* State                                                                   *)
(***************************************************************************)
VARIABLES
  GLOBALS,       \* Structure_Generator.GLOBALS: name -> specification
  gens,          \* the generators constructed so far
  cur,           \* the generator whose generate() is running (0: none)
  vals,          \* the Values created by the running generate()
  scopes,        \* the Scopes created by the running generate()
  stack,         \* generate's stack, of indexes into vals
  val,           \* generate's val: the popped Value (0: none)
  overall_size,  \* generate's overall_size
  pc,            \* idle | loop | popped | returned | raised
  result,        \* what generate() returned
  log,           \* the Values whose load_ref logger.error reported unknown
  regex,         \* word_from_regex's regex
  min_length,    \* word_from_regex's min_length
  attempt,       \* the turns of "for _ in range(200)" entered so far
  groups,        \* word_from_regex's groups: group -> word
  frames,        \* the running calls of word_from_ast, the innermost last
  candidate,     \* word_from_regex's result: the last word made (None: unbound)
  ret,           \* what word_from_regex returned (None: nothing yet)
  rpc            \* idle | for | ast | check | returned | failed

\* the state of Structure_Generator
evars == <<GLOBALS, gens, cur, vals, scopes, stack, val, overall_size, pc,
           result, log>>

\* the state of word_from_regex
rvars == <<regex, min_length, attempt, groups, frames, candidate, ret, rpc>>

vars == <<evars, rvars>>

(***************************************************************************)
(* class State                                                             *)
(***************************************************************************)
DELAYED == "DELAYED"
TO_BUILD == "TO_BUILD"
DONE == "DONE"
TRUNCATED == "TRUNCATED"

(***************************************************************************)
(* class Value, done(), new_value()                                        *)
(***************************************************************************)
Value(specification, state, value, depth, scope) ==
  [specification |-> specification, state |-> state, value |-> value,
   sons |-> <<>>, depth |-> depth, scope |-> scope]

done(value, parent) == Value(EmptySpec, DONE, value, parent.depth + 1, 0)

\* a new Value placed at its parent's own depth
new_value_at_parent(specification, parent, scope) ==
  Value(specification, DELAYED, Null, parent.depth, scope)

new_value(specification, parent, scope) ==
  Value(specification, DELAYED, Null, parent.depth + 1, scope)

(***************************************************************************)
(* class Scope: enums is a Counter, absent patterns count 0                *)
(***************************************************************************)
NewScope == [p \in {} |-> 0]

ScopeCount(scope, pattern) ==
  IF pattern \in DOMAIN scope THEN scope[pattern] ELSE 0

\* a Scope that hands out its count without counting the call
get_value_uncounted(scope, pattern) == scope

\* Scope.get_value: the scope after the call; the call returns ScopeCount
get_value(scope, pattern) ==
  [p \in DOMAIN scope \cup {pattern} |->
     IF p = pattern THEN ScopeCount(scope, pattern) + 1 ELSE scope[p]]

(***************************************************************************)
(* Structure_Generator.parse_specif: the pre-order walk that fills GLOBALS *)
(***************************************************************************)
Put(G, name, id) ==
  [k \in DOMAIN G \cup {name} |-> IF k = name THEN id ELSE G[k]]

RECURSIVE parse_specif(_, _)
RECURSIVE parse_children(_, _, _)

\* the loop over a record's keys or a choice's options
parse_children(items, i, G) ==
  IF i > Len(items) THEN G
  ELSE parse_children(items, i + 1,
                      parse_specif(Get(items[i].value, NoneSpec), G))

parse_specif(id, G) ==
  IF id = NoneSpec THEN G
  ELSE LET specif == SpecNode(id)
           G1 == IF specif.store_ref # None
                   THEN Put(G, specif.store_ref[1], id) ELSE G
           type == Get(specif.type, "")
       IN CASE type = "array" ->
                 parse_specif(Get(specif.type_elements, NoneSpec), G1)
            [] type = "record" ->
                 parse_children(Get(specif.keys, <<>>), 1, G1)
            [] type = "choice" ->
                 parse_children(Get(specif.options, <<>>), 1, G1)
            [] OTHER -> G1

(***************************************************************************)
(* Structure_Generator.__init__                                            *)
(***************************************************************************)
MaxDepthArgs == 0..MaxDepthArg
\* max_size: None, or a number
MaxSizeArgs == {None} \cup {Some(n) : n \in 0..MaxSizeArg}

Construct(specif, max_depth, max_size) ==
  /\ pc = "idle"
  /\ Len(gens) < MaxGens
  /\ gens' = Append(gens, [specif |-> specif, max_depth |-> max_depth,
                           max_size |-> max_size])
  /\ GLOBALS' = parse_specif(specif, GLOBALS)
  /\ UNCHANGED <<cur, vals, scopes, stack, val, overall_size, pc, result, log>>
  /\ UNCHANGED rvars

Init ==
  /\ GLOBALS = [k \in {} |-> EmptySpec]
  /\ gens = <<>>
  /\ cur = 0
  /\ vals = <<>>
  /\ scopes = <<>>
  /\ stack = <<>>
  /\ val = 0
  /\ overall_size = 0
  /\ pc = "idle"
  /\ result = Null
  /\ log = {}
  /\ regex = ""
  /\ min_length = 0
  /\ attempt = 0
  /\ groups = [g \in {} |-> ""]
  /\ frames = <<>>
  /\ candidate = None
  /\ ret = None
  /\ rpc = "idle"


(***************************************************************************)
(* Structure_Generator.generate: the loop                                  *)
(***************************************************************************)
Generate(g) ==
  /\ pc = "idle"
  /\ g \in 1..Len(gens)
  /\ cur' = g
  /\ vals' = <<Value(gens[g].specif, DELAYED, Null, 0, 0)>>
  /\ scopes' = <<>>
  /\ stack' = <<1>>
  /\ val' = 0
  /\ overall_size' = 1
  /\ pc' = "loop"
  /\ log' = {}
  /\ UNCHANGED <<GLOBALS, gens, result>>
  /\ UNCHANGED rvars

\* a pop from the bottom of the stack
PopFirst ==
  /\ pc = "loop"
  /\ stack # <<>>
  /\ val' = stack[1]
  /\ stack' = Tail(stack)
  /\ pc' = "popped"
  /\ UNCHANGED <<GLOBALS, gens, cur, vals, scopes, overall_size, result, log>>
  /\ UNCHANGED rvars

\* while stack: val = stack.pop()
Pop ==
  /\ pc = "loop"
  /\ stack # <<>>
  /\ val' = stack[Len(stack)]
  /\ stack' = SubSeq(stack, 1, Len(stack) - 1)
  /\ pc' = "popped"
  /\ UNCHANGED <<GLOBALS, gens, cur, vals, scopes, overall_size, result, log>>
  /\ UNCHANGED rvars

\* return main_value.value
Return ==
  /\ pc = "loop"
  /\ stack = <<>>
  /\ result' = vals[1].value
  /\ pc' = "returned"
  /\ val' = 0
  /\ UNCHANGED <<GLOBALS, gens, cur, vals, scopes, stack, overall_size, log>>
  /\ UNCHANGED rvars

\* GLOBALS.get(load, {})
Lookup(G, load) == IF load \in DOMAIN G THEN G[load] ELSE EmptySpec

\* a substitution that overwrites the specification object the Value holds,
\* wherever the generator or the registry refers to it
ResolveInPlace ==
  /\ pc = "popped"
  /\ vals[val].specification # NoneSpec
  /\ SpecNode(vals[val].specification).load_ref # None
  /\ LET loaded == Lookup(GLOBALS, SpecNode(vals[val].specification).load_ref[1])
         Over(id) == IF id = vals[val].specification THEN loaded ELSE id
     IN /\ vals' = [vals EXCEPT ![val].specification = loaded]
        /\ GLOBALS' = [k \in DOMAIN GLOBALS |-> Over(GLOBALS[k])]
        /\ gens' = [g \in 1..Len(gens) |->
                      [gens[g] EXCEPT !.specif = Over(gens[g].specif)]]
  /\ log' = IF SpecNode(vals[val].specification).load_ref[1] \in DOMAIN GLOBALS
              THEN log ELSE log \cup {val}
  /\ UNCHANGED <<cur, scopes, stack, val, overall_size, pc, result>>
  /\ UNCHANGED rvars

\* one turn of: while (load := val.specification.get("load_ref")) is not None
Resolve ==
  /\ pc = "popped"
  /\ vals[val].specification # NoneSpec
  /\ SpecNode(vals[val].specification).load_ref # None
  /\ vals' = [vals EXCEPT ![val].specification =
                Lookup(GLOBALS, SpecNode(vals[val].specification).load_ref[1])]
  /\ log' = IF SpecNode(vals[val].specification).load_ref[1] \in DOMAIN GLOBALS
              THEN log ELSE log \cup {val}
  /\ UNCHANGED <<GLOBALS, gens, cur, scopes, stack, val, overall_size, pc,
                 result>>
  /\ UNCHANGED rvars

\* val.specification is None: None.get raises AttributeError
RaiseNoSpecification ==
  /\ pc = "popped"
  /\ vals[val].specification = NoneSpec
  /\ pc' = "raised"
  /\ UNCHANGED <<GLOBALS, gens, cur, vals, scopes, stack, val, overall_size,
                 result, log>>
  /\ UNCHANGED rvars

\* the load_ref loop has ended
Resolved ==
  /\ pc = "popped"
  /\ vals[val].specification # NoneSpec
  /\ SpecNode(vals[val].specification).load_ref = None

\* the generator's max_depth alone, whatever the specification says
GeneratorMaxDepth(v, gen) == gen.max_depth

\* val.specification.get("max_depth", self.max_depth)
EffectiveMaxDepth(v, gen) == Get(SpecNode(v.specification).max_depth, gen.max_depth)

\* if val.depth >= ...: TRUNCATED, value None, continue
Truncate ==
  /\ Resolved
  /\ vals[val].depth >= EffectiveMaxDepth(vals[val], gens[cur])
  /\ vals' = [vals EXCEPT ![val].state = TRUNCATED, ![val].value = Null]
  /\ pc' = "loop"
  /\ UNCHANGED <<GLOBALS, gens, cur, scopes, stack, val, overall_size, result,
                 log>>
  /\ UNCHANGED rvars

\* self._type_alias.get(type_val, type_val)
TypeAlias(type) == IF type = Some("number") THEN Some("integer") ELSE type

\* self.CALLBACKS[key]: register_base_functions, else _null_callback
Callback(type, method) ==
  LET key == <<TypeAlias(type), method>>
  IN CASE key = <<Some("integer"), Some("uniform")>> -> "generate_integer_uniform"
       [] key = <<Some("integer"), None>> -> "generate_integer_uniform"
       [] key = <<Some("integer"), Some("choice")>> -> "generate_integer_choice"
       [] key = <<Some("integer"), Some("numpy")>> -> "generate_number_numpy"
       [] key = <<Some("bool"), None>> -> "generate_boolean"
       [] key = <<Some("fixed"), None>> -> "generate_fixed"
       [] key = <<Some("choice"), None>> -> "generate_choice"
       [] key = <<Some("string"), None>> -> "generate_string"
       [] key = <<Some("string"), Some("enum")>> -> "generate_string_enum"
       [] key = <<Some("string"), Some("choice")>> -> "generate_string_choice"
       [] key = <<Some("string"), Some("regex")>> -> "generate_string_from_regex"
       [] key = <<Some("record"), None>> -> "generate_record"
       [] key = <<Some("array"), None>> -> "generate_array"
       [] key = <<Some("constant"), None>> -> "generate_fixed"
       [] OTHER -> "_null_callback"

\* the handler generate dispatches the popped Value to
Dispatched(name) ==
  /\ Resolved
  /\ vals[val].depth < EffectiveMaxDepth(vals[val], gens[cur])
  /\ Callback(SpecNode(vals[val].specification).type,
              SpecNode(vals[val].specification).method) = name

\* Python's lst[:k]
SliceTo(lst, k) ==
  IF k >= 0 THEN SubSeq(lst, 1, IF k < Len(lst) THEN k ELSE Len(lst))
  ELSE SubSeq(lst, 1, Len(lst) + k)

\* the sons pushed last first, so that the first is popped first
PushedSonsLastFirst(sons, max_size, size) ==
  LET pushed == IF max_size # None /\ size + Len(sons) >= max_size[1]
                  THEN SliceTo(sons, max_size[1] - size)
                  ELSE sons
  IN [k \in 1..Len(pushed) |-> pushed[Len(pushed) + 1 - k]]

\* the sons generate pushes for a TO_BUILD Value
PushedSons(sons, max_size, size) ==
  IF max_size # None /\ size + Len(sons) >= max_size[1]
    THEN SliceTo(sons, max_size[1] - size)
    ELSE sons

SizeAfter(sons, max_size, size) ==
  IF max_size # None /\ size + Len(sons) >= max_size[1]
    THEN max_size[1]
    ELSE size + Len(sons)

\* the TO_BUILD Value pushed back above its sons instead of below them
AfterCallbackAboveSons(nvals) ==
  /\ vals' = nvals
  /\ pc' = "loop"
  /\ CASE nvals[val].state = DONE ->
            UNCHANGED <<stack, overall_size>>
       [] nvals[val].state = TO_BUILD ->
            /\ stack' = Append(stack \o
                 PushedSons(nvals[val].sons, gens[cur].max_size, overall_size),
                 val)
            /\ overall_size' =
                 SizeAfter(nvals[val].sons, gens[cur].max_size, overall_size)
       [] nvals[val].state = DELAYED ->
            /\ stack' = Append(stack, val)
            /\ UNCHANGED overall_size
  /\ UNCHANGED <<GLOBALS, gens, cur, val, result, log>>
  /\ UNCHANGED rvars

\* match val.state: what generate does once the handler has returned nvals
AfterCallback(nvals) ==
  /\ vals' = nvals
  /\ pc' = "loop"
  /\ CASE nvals[val].state = DONE ->
            UNCHANGED <<stack, overall_size>>
       [] nvals[val].state = TO_BUILD ->
            /\ stack' = Append(stack, val) \o
                 PushedSons(nvals[val].sons, gens[cur].max_size, overall_size)
            /\ overall_size' =
                 SizeAfter(nvals[val].sons, gens[cur].max_size, overall_size)
       [] nvals[val].state = DELAYED ->
            /\ stack' = Append(stack, val)
            /\ UNCHANGED overall_size
  /\ UNCHANGED <<GLOBALS, gens, cur, val, result, log>>
  /\ UNCHANGED rvars

\* an exception leaves generate
Raise ==
  /\ pc' = "raised"
  /\ UNCHANGED <<GLOBALS, gens, cur, vals, scopes, stack, val, overall_size,
                 result, log>>
  /\ UNCHANGED rvars


(***************************************************************************)
(* Simple handlers                                                         *)
(***************************************************************************)
\* _null_callback
null_callback(vs, v) == [vs EXCEPT ![v].state = DONE, ![v].value = Null]

CallNull ==
  /\ Dispatched("_null_callback")
  /\ AfterCallback(null_callback(vals, val))
  /\ UNCHANGED scopes

\* generate_fixed
generate_fixed(vs, v) ==
  [vs EXCEPT ![v].state = DONE,
             ![v].value = Get(SpecNode(vs[v].specification).value, Null)]

CallFixed ==
  /\ Dispatched("generate_fixed")
  /\ AfterCallback(generate_fixed(vals, val))
  /\ UNCHANGED scopes

\* generate_integer_uniform behind register_simple_function: parameters is a
\* dict (keyword arguments) or absent (the defaults 0 and 9)
IntegerBounds(specification) ==
  Get(SpecNode(specification).parameters, [min_val |-> 0, max_val |-> 9])

CallIntegerUniform ==
  /\ Dispatched("generate_integer_uniform")
  /\ LET b == IntegerBounds(vals[val].specification)
     IN \/ /\ b.min_val > b.max_val      \* random.randint raises ValueError
           /\ Raise
           /\ UNCHANGED scopes
        \/ \E i \in b.min_val..b.max_val :
             /\ AfterCallback([vals EXCEPT ![val].state = DONE,
                                           ![val].value = Int_(i)])
             /\ UNCHANGED scopes

\* str.zfill, as "%04d" pads
RECURSIVE ZeroPad(_, _)
ZeroPad(digits, width) ==
  IF Len(digits) >= width THEN digits ELSE ZeroPad("0" \o digits, width)

\* pattern % enum_id, for the conversions %d and %04d
RECURSIVE FormatFrom(_, _, _)
FormatFrom(pattern, i, n) ==
  IF i > Len(pattern) THEN ""
  ELSE IF i + 1 <= Len(pattern) /\ SubSeq(pattern, i, i + 1) = "%d"
    THEN ToString(n) \o FormatFrom(pattern, i + 2, n)
  ELSE IF i + 3 <= Len(pattern) /\ SubSeq(pattern, i, i + 3) = "%04d"
    THEN ZeroPad(ToString(n), 4) \o FormatFrom(pattern, i + 4, n)
  ELSE SubSeq(pattern, i, i) \o FormatFrom(pattern, i + 1, n)

Format(pattern, n) == FormatFrom(pattern, 1, n)

\* generate_string_enum: the Value
generate_string_enum(vs, scs, v) ==
  LET pattern == Get(SpecNode(vs[v].specification).pattern, "%d")
      enum_id == IF vs[v].scope # 0
                   THEN ScopeCount(scs[vs[v].scope], pattern) ELSE 0
  IN [vs EXCEPT ![v].value = Str(Format(pattern, enum_id)),
                ![v].state = DONE]

\* generate_string_enum: the Scope, after scope.get_value(pattern)
enum_scopes(vs, scs, v) ==
  LET pattern == Get(SpecNode(vs[v].specification).pattern, "%d")
  IN IF vs[v].scope # 0
       THEN [scs EXCEPT ![vs[v].scope] = get_value(scs[vs[v].scope], pattern)]
       ELSE scs

CallStringEnum ==
  /\ Dispatched("generate_string_enum")
  /\ AfterCallback(generate_string_enum(vals, scopes, val))
  /\ scopes' = enum_scopes(vals, scopes, val)

\* one Scope for every composite, whichever it is
SharedScope(scs) == 1

\* scope = Scope(): the new object, next in scopes
FreshScope(scs) == Len(scs) + 1

(***************************************************************************)
(* generate_record                                                         *)
(***************************************************************************)
\* for key in keys: for _ in range(repeats): the repetitions, in order
RECURSIVE Repetitions(_, _)
Repetitions(keys, i) ==
  IF i > Len(keys) THEN <<>>
  ELSE [j \in 1..Get(keys[i].repeat, 1) |-> keys[i]] \o Repetitions(keys, i + 1)

StartsWithBang(s) == Len(s) >= 1 /\ SubSeq(s, 1, 1) = "!"

\* match key.get("chance", 100); draw is random.random() * 100 < p
Presence(key, keys_there, draw) ==
  LET chance == Get(key.chance, [kind |-> "num", num |-> 100, str |-> ""])
  IN CASE chance.kind = "none" -> TRUE
       [] chance.kind = "num" -> draw
       [] chance.kind = "str" ->
            IF StartsWithBang(chance.str)
              THEN SubSeq(chance.str, 2, Len(chance.str)) \notin keys_there
              ELSE chance.str \in keys_there

\* the outcomes random.random() * 100 < p can have, random() being in [0, 1)
Draws(key) ==
  LET chance == Get(key.chance, [kind |-> "num", num |-> 100, str |-> ""])
  IN IF chance.kind # "num" THEN {TRUE}
     ELSE IF chance.num >= 100 THEN {TRUE}
     ELSE IF chance.num <= 0 THEN {FALSE}
     ELSE {TRUE, FALSE}

\* the body of the two loops for one repetition.  acc holds the Values,
\* value.value (pairs), to_be_done and whether key["name"] raised KeyError.
RecordStep(key, draw, keys_there, v, scope, acc) ==
  IF ~Presence(key, keys_there, draw) THEN acc
  ELSE IF key.name = None THEN [acc EXCEPT !.raised = TRUE]
  ELSE LET isdict == key.name[1].isdict
           name == IF isdict
                     THEN new_value(key.name[1].id, acc.vals[v], scope)
                     ELSE done(Str(key.name[1].s), acc.vals[v])
           n_value == new_value(Get(key.value, EmptySpec), acc.vals[v], scope)
           ni == Len(acc.vals) + 1
           vi == Len(acc.vals) + 2
       IN [vals |-> acc.vals \o <<name, n_value>>,
           pairs |-> Append(acc.pairs, <<ni, vi>>),
           to_be_done |-> acc.to_be_done \o
              (IF isdict THEN <<ni, vi>> ELSE <<vi>>),
           raised |-> FALSE]

\* the two loops, from repetition i on.  keys_there is created empty and
\* nothing is ever added to it.
RECURSIVE RecordLoop(_, _, _, _, _, _, _)
RecordLoop(reps, i, draws, keys_there, v, scope, acc) ==
  IF i > Len(reps) \/ acc.raised THEN acc
  ELSE CHOOSE r \in
         {RecordLoop(reps, i + 1, draws, keys_there, v, scope, nxt) :
            nxt \in {RecordStep(reps[i], draws[i], keys_there, v, scope, acc)}} :
         TRUE

\* case State.DELAYED; scope is the index of the Scope() just created
record_delayed(vs, v, scope, draws) ==
  LET reps == Repetitions(Get(SpecNode(vs[v].specification).keys, <<>>), 1)
      keys_there == {}
      acc == RecordLoop(reps, 1, draws, keys_there, v, scope,
                        [vals |-> vs, pairs |-> <<>>, to_be_done |-> <<>>,
                         raised |-> FALSE])
  IN IF acc.raised THEN acc
     ELSE IF acc.to_be_done # <<>>
       THEN [acc EXCEPT !.vals[v].value = Pairs(acc.pairs),
                        !.vals[v].state = TO_BUILD,
                        !.vals[v].sons = acc.to_be_done]
       ELSE [acc EXCEPT !.vals[v].value = Dict(<<>>),
                        !.vals[v].state = DONE]

\* d[k] = x on a dict kept as a sequence of entries
RECURSIVE DictIndex(_, _, _)
DictIndex(entries, k, i) ==
  IF i > Len(entries) THEN 0
  ELSE IF entries[i].key = k THEN i ELSE DictIndex(entries, k, i + 1)

DictPut(entries, k, x) ==
  LET i == DictIndex(entries, k, 1)
  IN IF i = 0 THEN Append(entries, [key |-> k, val |-> x])
     ELSE [entries EXCEPT ![i].val = x]

\* a mapping of every pair, whatever the state of its name and value
RECURSIVE DictOfAllPairs(_, _, _, _)
DictOfAllPairs(vs, pairs, i, entries) ==
  IF i > Len(pairs) THEN entries
  ELSE DictOfAllPairs(vs, pairs, i + 1,
                      DictPut(entries, vs[pairs[i][1]].value,
                              vs[pairs[i][2]].value))

\* {k.value: v.value for k, v in value.value if k.state == v.state == DONE}
RECURSIVE DictOfPairs(_, _, _, _)
DictOfPairs(vs, pairs, i, entries) ==
  IF i > Len(pairs) THEN entries
  ELSE LET k == vs[pairs[i][1]]
           x == vs[pairs[i][2]]
       IN IF k.state = DONE /\ x.state = DONE
            THEN DictOfPairs(vs, pairs, i + 1, DictPut(entries, k.value, x.value))
            ELSE DictOfPairs(vs, pairs, i + 1, entries)

\* a list or a dict as a key raises TypeError (unhashable)
Unhashable(vs, pairs) ==
  \E i \in 1..Len(pairs) :
    /\ vs[pairs[i][1]].state = DONE /\ vs[pairs[i][2]].state = DONE
    /\ vs[pairs[i][1]].value.t \in {"list", "dict"}

\* a TO_BUILD step that hands the Value back as DELAYED
record_build_delayed(vs, v) == [vs EXCEPT ![v].state = DELAYED]

\* case State.TO_BUILD
record_build(vs, v) ==
  [vs EXCEPT ![v].value = Dict(DictOfPairs(vs, vs[v].value.p, 1, <<>>)),
             ![v].state = DONE]

CallRecord ==
  /\ Dispatched("generate_record")
  /\ \/ /\ vals[val].state = DELAYED
        /\ LET reps == Repetitions(
                         Get(SpecNode(vals[val].specification).keys, <<>>), 1)
           IN \E draws \in [1..Len(reps) -> BOOLEAN] :
                /\ \A i \in 1..Len(reps) : draws[i] \in Draws(reps[i])
                /\ \E r \in {record_delayed(vals, val, FreshScope(scopes), draws)} :
                      IF r.raised
                        THEN Raise /\ UNCHANGED scopes
                        ELSE /\ AfterCallback(r.vals)
                             /\ scopes' = Append(scopes, NewScope)
     \/ /\ vals[val].state = TO_BUILD
        /\ IF Unhashable(vals, vals[val].value.p)
             THEN Raise
             ELSE AfterCallback(record_build(vals, val))
        /\ UNCHANGED scopes


(***************************************************************************)
(* generate_array                                                          *)
(***************************************************************************)
ArrayMinLength(specification) == Get(SpecNode(specification).min_length, 0)

ArrayMaxLength(specification) ==
  Get(SpecNode(specification).max_length, ArrayMinLength(specification) + 4)

\* case State.DELAYED, length being random.randint(min_length, max_length)
array_delayed(vs, v, scope, length) ==
  LET type_elements == Get(SpecNode(vs[v].specification).type_elements, EmptySpec)
      elements == [j \in 1..length |-> new_value(type_elements, vs[v], scope)]
      indexes == [j \in 1..length |-> Len(vs) + j]
  IN [vs \o elements EXCEPT ![v].value = Elems(indexes),
                            ![v].sons = indexes,
                            ![v].state = TO_BUILD]

\* case State.TO_BUILD: [v.value for v in value.value]
array_build(vs, v) ==
  [vs EXCEPT ![v].value = List([j \in 1..Len(vs[v].value.e) |->
                                  vs[vs[v].value.e[j]].value]),
             ![v].state = DONE]

CallArray ==
  /\ Dispatched("generate_array")
  /\ \/ /\ vals[val].state = DELAYED
        /\ LET lo == ArrayMinLength(vals[val].specification)
               hi == ArrayMaxLength(vals[val].specification)
           IN \/ /\ lo > hi              \* random.randint raises ValueError
                 /\ Raise
                 /\ UNCHANGED scopes
              \/ \E length \in lo..hi :
                   /\ AfterCallback(array_delayed(vals, val,
                                                  FreshScope(scopes), length))
                   /\ scopes' = Append(scopes, NewScope)
     \/ /\ vals[val].state = TO_BUILD
        /\ AfterCallback(array_build(vals, val))
        /\ UNCHANGED scopes

(***************************************************************************)
(* generate_choice                                                         *)
(***************************************************************************)
\* the values of r = random.random() * 100.0 the model draws
\* Python floats between 0 and 128 that are whole multiples of 2^-50, held
\* as <<hi, lo>> for (hi * 2^29 + lo) * 2^-50.  Every float the loop of
\* generate_choice meets is one of them when the explicit chances are
\* integers and there are at most 25 options (100.0 / 25 = 4.0).
Limb == 2^29
FromInt(k) == <<k * 2^21, 0>>
Less(a, b) == a[1] < b[1] \/ (a[1] = b[1] /\ a[2] < b[2])

\* the spacing of the floats around <<hi, _>>, in units of 2^-50: a float has
\* 53 significant bits
Ulp(hi) ==
  IF hi < 2^24 THEN 1 ELSE IF hi < 2^25 THEN 2 ELSE IF hi < 2^26 THEN 4
  ELSE IF hi < 2^27 THEN 8 ELSE 16

\* the float nearest to <<hi, lo>> + num / den units (0 <= num < den), ties
\* to the even one: the rounding of every float operation
RoundToFloat(hi, lo, num, den) ==
  LET g == Ulp(hi)
      down == lo - (lo % g)
      twice == 2 * ((lo % g) * den + num)
      up == \/ twice > g * den
            \/ twice = g * den /\ (down \div g) % 2 = 1
  IN IF ~up THEN <<hi, down>>
     ELSE IF down + g = Limb THEN <<hi + 1, 0>> ELSE <<hi, down + g>>

\* r - chance, for r >= chance
Minus(a, b) ==
  IF a[2] >= b[2] THEN RoundToFloat(a[1] - b[1], a[2] - b[2], 0, 1)
  ELSE RoundToFloat(a[1] - b[1] - 1, a[2] + Limb - b[2], 0, 1)

\* bits more binary digits of rem / n after the digits q: <<digits, rest>>
RECURSIVE LongDivision(_, _, _, _)
LongDivision(rem, n, bits, q) ==
  IF bits = 0 THEN <<q, rem>>
  ELSE IF 2 * rem >= n THEN LongDivision(2 * rem - n, n, bits - 1, 2 * q + 1)
       ELSE LongDivision(2 * rem, n, bits - 1, 2 * q)

\* 100.0 / len(options)
ImplicitChance(n) ==
  LET hi == (100 * 2^21) \div n
      low == LongDivision((100 * 2^21) % n, n, 29, 0)
  IN RoundToFloat(hi, low[1], low[2], n)

\* random.random() * 100.0: whole - below * 2^-46.  The second kind are the
\* largest floats under a whole number; 100 - 2^-46 is the largest roll.
Roll(whole, below) == [whole |-> whole, below |-> below]
Rolls ==
  {Roll(k, 0) : k \in {0, 24, 25, 49, 50, 74, 75, 99}} \cup
  {Roll(k, 1) : k \in {25, 100}}
RollFloat(r) ==
  IF r.below = 0 THEN FromInt(r.whole)
  ELSE <<r.whole * 2^21 - 1, Limb - 16 * r.below>>

\* the for loop from option i on.
\* 0: no option was reached; else the index of the option taken.
RECURSIVE ChoiceLoop(_, _, _)
ChoiceLoop(options, i, r) ==
  IF i > Len(options) THEN 0
  ELSE LET chance == IF options[i].chance = None
                       THEN ImplicitChance(Len(options))
                     ELSE FromInt(options[i].chance[1])
       IN IF Less(r, chance) THEN i
          ELSE CHOOSE t \in {ChoiceLoop(options, i + 1, left) :
                               left \in {Minus(r, chance)}} : TRUE

generate_choice(vs, v, r) ==
  LET options == Get(SpecNode(vs[v].specification).options, <<>>)
      taken == ChoiceLoop(options, 1, RollFloat(r))
  IN IF taken # 0
       THEN [vs EXCEPT ![v].specification = Get(options[taken].value, NoneSpec)]
       ELSE [vs EXCEPT ![v].value = Null, ![v].state = DONE]

CallChoice ==
  /\ Dispatched("generate_choice")
  /\ \E r \in Rolls : AfterCallback(generate_choice(vals, val, r))
  /\ UNCHANGED scopes

(***************************************************************************)
(* The caller: generate() has returned or raised                           *)
(***************************************************************************)
Finish ==
  /\ pc \in {"returned", "raised"}
  /\ pc' = "idle"
  /\ cur' = 0
  /\ vals' = <<>>
  /\ scopes' = <<>>
  /\ stack' = <<>>
  /\ val' = 0
  /\ overall_size' = 0
  /\ result' = Null
  /\ log' = {}
  /\ UNCHANGED <<GLOBALS, gens>>
  /\ UNCHANGED rvars

Next ==
  \/ \E specif \in Roots, max_depth \in MaxDepthArgs, max_size \in MaxSizeArgs :
       gens = <<>> /\ Construct(specif, max_depth, max_size)
  \/ \E specif \in LaterRoots :
       gens # <<>> /\ Construct(specif, MaxDepthArg, None)
  \/ \E g \in 1..MaxGens : Generate(g)
  \/ Pop
  \/ Resolve
  \/ RaiseNoSpecification
  \/ Truncate
  \/ CallNull
  \/ CallFixed
  \/ CallIntegerUniform
  \/ CallStringEnum
  \/ CallRecord
  \/ CallArray
  \/ CallChoice
  \/ Return
  \/ Finish

Spec == Init /\ [][Next]_vars


(***************************************************************************)
(* The loop of generate() keeps running until it returns or raises         *)
(***************************************************************************)
EngineStep ==
  \/ Pop \/ Resolve \/ RaiseNoSpecification \/ Truncate \/ CallNull
  \/ CallFixed \/ CallIntegerUniform \/ CallStringEnum \/ CallRecord
  \/ CallArray \/ CallChoice \/ Return

FairSpec == Spec /\ WF_vars(EngineStep)

(***************************************************************************)
(* re._parser.parse: the trees of the patterns word_from_regex is given    *)
(***************************************************************************)
LITERAL(c) == [op |-> "LITERAL", code |-> c]
BRANCH(alternatives) == [op |-> "BRANCH", alternatives |-> alternatives]
MAX_REPEAT(min_, max_, subpattern) ==
  [op |-> "MAX_REPEAT", min_ |-> min_, max_ |-> max_, subpattern |-> subpattern]
SUBPATTERN(group, subpattern) ==
  [op |-> "SUBPATTERN", group |-> group, subpattern |-> subpattern]
GROUPREF(group) == [op |-> "GROUPREF", group |-> group]
IN_(patterns) == [op |-> "IN", patterns |-> patterns]
AT(position) == [op |-> "AT", position |-> position]

\* re._constants.MAXREPEAT is 2^32 - 1; the trees hold a number no count of
\* the model comes near, as the code only compares it with 0 and decrements it
MAXREPEAT == 2^30

\* parse(regex): Some(tree), or None where parse raises re.error
Parse(r) ==
  CASE r = "ab|cd" ->
         Some(<<BRANCH(<<<<LITERAL("a"), LITERAL("b")>>,
                         <<LITERAL("c"), LITERAL("d")>>>>)>>)
    [] r = "a*" -> Some(<<MAX_REPEAT(0, MAXREPEAT, <<LITERAL("a")>>)>>)
    [] r = "(st|uv)+" ->
         Some(<<MAX_REPEAT(1, MAXREPEAT,
                  <<SUBPATTERN(Some(1),
                      <<BRANCH(<<<<LITERAL("s"), LITERAL("t")>>,
                                 <<LITERAL("u"), LITERAL("v")>>>>)>>)>>)>>)
    [] r = "a^b" -> Some(<<LITERAL("a"), AT("AT_BEGINNING"), LITERAL("b")>>)
    [] r = "a$b" -> Some(<<LITERAL("a"), AT("AT_END"), LITERAL("b")>>)
    [] r = "(a*)\\bc" ->
         Some(<<SUBPATTERN(Some(1), <<MAX_REPEAT(0, MAXREPEAT, <<LITERAL("a")>>)>>),
                AT("AT_BOUNDARY"), LITERAL("c")>>)
    [] r = "(a|b)\\1" ->
         Some(<<SUBPATTERN(Some(1), <<IN_(<<LITERAL("a"), LITERAL("b")>>)>>),
                GROUPREF(1)>>)
    [] r = "(?:ab)?c" ->
         Some(<<MAX_REPEAT(0, 1, <<LITERAL("a"), LITERAL("b")>>), LITERAL("c")>>)
    [] r = "\\b-a" -> Some(<<AT("AT_BOUNDARY"), LITERAL("-"), LITERAL("a")>>)
    [] r = "a{1,2}b" ->
         Some(<<MAX_REPEAT(1, 2, <<LITERAL("a")>>), LITERAL("b")>>)
    [] OTHER -> None           \* "(" 

Regexes ==
  {"ab|cd", "a*", "(st|uv)+", "a^b", "a$b", "(a*)\\bc", "(a|b)\\1",
   "(?:ab)?c", "\\b-a", "a{1,2}b", "("}

MinLengths == 0..MaxMinLength

\* _CATEGORIES[CATEGORY_WORD] and _CATEGORIES[CATEGORY_NOT_WORD], kept to the
\* characters of the patterns above and two more of each kind
CATEGORY_WORD == {"a", "b", "c", "d", "s", "t", "u", "v", "_", "0"}
CATEGORY_NOT_WORD == {"-", " "}

(***************************************************************************)
(* re.search(regex, result): a backtracking matcher over the parsed tree.  *)
(* A match state is the position reached and the groups captured.          *)
(***************************************************************************)
CharAt(w, i) == SubSeq(w, i, i)

IsWordAt(w, i) == i >= 1 /\ i <= Len(w) /\ CharAt(w, i) \in CATEGORY_WORD

RECURSIVE MatchSeq(_, _, _, _)
RECURSIVE MatchNode(_, _, _)
RECURSIVE MatchRepeat(_, _, _, _)

\* the match states after items i.. of seq, from the match states S
MatchSeq(seq, i, w, S) ==
  IF i > Len(seq) \/ S = {} THEN S
  ELSE MatchSeq(seq, i + 1, w, UNION {MatchNode(seq[i], w, s) : s \in S})

\* the match states after k repetitions are S; those after min_..max_
MatchRepeat(n, w, S, k) ==
  (IF k >= n.min_ THEN S ELSE {}) \cup
  (IF k < n.max_ /\ S # {} /\ k < n.min_ + Len(w) + 1
     THEN MatchRepeat(n, w, MatchSeq(n.subpattern, 1, w, S), k + 1)
     ELSE {})

MatchNode(n, w, s) ==
  CASE n.op = "LITERAL" ->
         IF s.pos < Len(w) /\ CharAt(w, s.pos + 1) = n.code
           THEN {[s EXCEPT !.pos = @ + 1]} ELSE {}
    [] n.op = "IN" ->
         IF s.pos < Len(w) /\
            \E k \in 1..Len(n.patterns) : CharAt(w, s.pos + 1) = n.patterns[k].code
           THEN {[s EXCEPT !.pos = @ + 1]} ELSE {}
    [] n.op = "BRANCH" ->
         UNION {MatchSeq(n.alternatives[k], 1, w, {s}) :
                  k \in 1..Len(n.alternatives)}
    [] n.op = "MAX_REPEAT" -> MatchRepeat(n, w, {s}, 0)
    [] n.op = "SUBPATTERN" ->
         IF n.group = None THEN MatchSeq(n.subpattern, 1, w, {s})
         ELSE {[pos |-> t.pos,
                env |-> [g \in DOMAIN t.env \cup {n.group[1]} |->
                           IF g = n.group[1] THEN SubSeq(w, s.pos + 1, t.pos)
                           ELSE t.env[g]]] :
                 t \in MatchSeq(n.subpattern, 1, w, {s})}
    [] n.op = "GROUPREF" ->
         IF n.group \in DOMAIN s.env /\
            s.pos + Len(s.env[n.group]) <= Len(w) /\
            SubSeq(w, s.pos + 1, s.pos + Len(s.env[n.group])) = s.env[n.group]
           THEN {[s EXCEPT !.pos = @ + Len(s.env[n.group])]} ELSE {}
    [] n.op = "AT" ->
         CASE n.position = "AT_BEGINNING" -> IF s.pos = 0 THEN {s} ELSE {}
           [] n.position = "AT_END" -> IF s.pos = Len(w) THEN {s} ELSE {}
           [] n.position = "AT_BOUNDARY" ->
                IF IsWordAt(w, s.pos) # IsWordAt(w, s.pos + 1) THEN {s} ELSE {}

\* re.search(regex, w) is not None
Search(tree, w) ==
  \E p \in 0..Len(w) :
    MatchSeq(tree, 1, w, {[pos |-> p, env |-> [g \in {} |-> ""]]}) # {}

(***************************************************************************)
(* word_from_regex and its inner word_from_ast                             *)
(***************************************************************************)
\* for _ in range(200)
Attempts == 200

Reverse(lst) == [i \in 1..Len(lst) |-> lst[Len(lst) + 1 - i]]

\* rev_append that forgets to reverse
append_in_order(stk, lst) == stk \o lst

\* rev_append(lst) on a stack
rev_append(stk, lst) == stk \o Reverse(lst)

RECURSIVE Join(_)
Join(res) == IF res = <<>> THEN "" ELSE Head(res) \o Join(Tail(res))

\* a call of word_from_ast(ast); group is the group its word is kept under
\* (0 for the call made by word_from_regex)
Frame(ast, group) ==
  [stack |-> Reverse(ast), res |-> <<>>, set_start_bounday |-> FALSE,
   group |-> group]

Top == frames[Len(frames)]
Node == Top.stack[Len(Top.stack)]
Rest == SubSeq(Top.stack, 1, Len(Top.stack) - 1)
SetTop(f) == [frames EXCEPT ![Len(frames)] = f]

\* while stack: match stack.pop(): the popped element has this opcode
Popped(ops) == rpc = "ast" /\ Top.stack # <<>> /\ Node.op \in ops

\* the acceptance test without the re-check
AcceptedByLength(tree, word, min) == Len(word) >= min

\* len(result) >= min_length and re.search(regex, result)
Accepted(tree, word, min) == Len(word) >= min /\ Search(tree, word)

\* the call word_from_regex(r, m)
CallWordFromRegex(r, m) ==
  /\ rpc = "idle"
  /\ regex' = r
  /\ min_length' = m
  /\ groups' = [g \in {} |-> ""]
  /\ attempt' = 0
  /\ rpc' = "for"
  /\ UNCHANGED <<frames, candidate, ret>>
  /\ UNCHANGED evars

\* one more turn of the for loop: parse(regex), then word_from_ast is entered
ForNext ==
  /\ rpc = "for"
  /\ attempt < Attempts
  /\ attempt' = attempt + 1
  /\ IF Parse(regex) = None
       THEN rpc' = "failed" /\ ret' = Some("") /\ UNCHANGED frames
       ELSE /\ frames' = <<Frame(Parse(regex)[1], 0)>>
            /\ rpc' = "ast"
            /\ UNCHANGED ret
  /\ UNCHANGED <<regex, min_length, groups, candidate>>
  /\ UNCHANGED evars

\* the for loop is exhausted: return result
ForEnd ==
  /\ rpc = "for"
  /\ attempt = Attempts
  /\ ret' = candidate
  /\ rpc' = "returned"
  /\ UNCHANGED <<regex, min_length, attempt, groups, frames, candidate>>
  /\ UNCHANGED evars

\* what a step inside word_from_ast leaves alone
AstFrame ==
  /\ UNCHANGED <<regex, min_length, attempt, candidate, ret, rpc>>
  /\ UNCHANGED evars

\* case (C.LITERAL, code)
StepLiteral ==
  /\ Popped({"LITERAL"})
  /\ frames' = SetTop([Top EXCEPT !.stack = Rest,
                                  !.res = Append(Top.res, Node.code)])
  /\ UNCHANGED groups
  /\ AstFrame

\* case (C.BRANCH, (_, alternatives))
StepBranch ==
  /\ Popped({"BRANCH"})
  /\ \E k \in 1..Len(Node.alternatives) :
       frames' = SetTop([Top EXCEPT
                           !.stack = rev_append(Rest, Node.alternatives[k])])
  /\ UNCHANGED groups
  /\ AstFrame

\* a repetition that may stop before its minimum is used up
StepRepeatAnyStop ==
  /\ Popped({"MAX_REPEAT", "MIN_REPEAT"})
  /\ \/ frames' = SetTop([Top EXCEPT !.stack = Rest])
     \/ /\ Node.max_ > 0
        /\ Node.min_ > 0 - MaxOptional
        /\ frames' = SetTop([Top EXCEPT !.stack =
             rev_append(Append(Rest, MAX_REPEAT(Node.min_ - 1, Node.max_ - 1,
                                                Node.subpattern)),
                        Node.subpattern)])
  /\ UNCHANGED groups
  /\ AstFrame

\* case (C.MAX_REPEAT, ...) | (C.MIN_REPEAT, ...).  random.random() < 0.5 is
\* either; the model follows the runs with at most MaxOptional repetitions
\* beyond the minimum.
StepRepeat ==
  /\ Popped({"MAX_REPEAT", "MIN_REPEAT"})
  /\ \/ /\ Node.max_ <= 0 \/ Node.min_ <= 0
        /\ frames' = SetTop([Top EXCEPT !.stack = Rest])
     \/ /\ Node.max_ > 0
        /\ Node.min_ > 0 - MaxOptional
        /\ frames' = SetTop([Top EXCEPT !.stack =
             rev_append(Append(Rest, MAX_REPEAT(Node.min_ - 1, Node.max_ - 1,
                                                Node.subpattern)),
                        Node.subpattern)])
  /\ UNCHANGED groups
  /\ AstFrame

\* case (C.SUBPATTERN, (group, _, _, subpattern))
StepSubpattern ==
  /\ Popped({"SUBPATTERN"})
  /\ IF Node.group = None
       THEN frames' = SetTop([Top EXCEPT
                                !.stack = rev_append(Rest, Node.subpattern)])
       ELSE frames' = Append(SetTop([Top EXCEPT !.stack = Rest]),
                             Frame(Node.subpattern, Node.group[1]))
  /\ UNCHANGED groups
  /\ AstFrame

\* case (C.GROUPREF, group)
StepGroupref ==
  /\ Popped({"GROUPREF"})
  /\ frames' = SetTop([Top EXCEPT
       !.stack = Rest,
       !.res = IF Node.group \in DOMAIN groups
                 THEN Append(Top.res, groups[Node.group]) ELSE Top.res])
  /\ UNCHANGED groups
  /\ AstFrame

\* case (C.IN, patterns), patterns not negated: p = random.choice(patterns)
StepIn ==
  /\ Popped({"IN"})
  /\ \E k \in 1..Len(Node.patterns) :
       /\ Node.patterns[k].op = "LITERAL"
       /\ frames' = SetTop([Top EXCEPT
                              !.stack = Rest,
                              !.res = Append(Top.res, Node.patterns[k].code)])
  /\ UNCHANGED groups
  /\ AstFrame

\* except Exception: logger.error(...); return ""
Except ==
  /\ rpc' = "failed"
  /\ ret' = Some("")
  /\ frames' = <<>>
  /\ UNCHANGED <<regex, min_length, attempt, groups, candidate>>
  /\ UNCHANGED evars

\* case (C.AT, position)
StepAt ==
  /\ Popped({"AT"})
  /\ CASE Node.position = "AT_BOUNDARY" ->
            IF Top.res # <<>>
              THEN LET last == Top.res[Len(Top.res)]
                   IN IF last = ""          \* res[-1][-1]: IndexError
                        THEN Except
                      ELSE IF CharAt(last, Len(last)) \in CATEGORY_WORD
                        THEN /\ IF Rest # <<>>
                                  THEN \E c \in CATEGORY_NOT_WORD :
                                         frames' = SetTop([Top EXCEPT
                                           !.stack = Rest,
                                           !.res = Append(Top.res, c)])
                                  ELSE frames' = SetTop([Top EXCEPT !.stack = Rest])
                             /\ UNCHANGED groups
                             /\ AstFrame
                      ELSE /\ \E c \in CATEGORY_WORD :
                                frames' = SetTop([Top EXCEPT
                                  !.stack = Rest, !.res = Append(Top.res, c)])
                           /\ UNCHANGED groups
                           /\ AstFrame
              ELSE /\ frames' = SetTop([Top EXCEPT !.stack = Rest,
                                                   !.set_start_bounday = TRUE])
                   /\ UNCHANGED groups
                   /\ AstFrame
       [] Node.position = "AT_BEGINNING" ->
            /\ frames' = SetTop([Top EXCEPT !.stack = Rest, !.res = <<>>])
            /\ UNCHANGED groups
            /\ AstFrame
       [] Node.position = "AT_END" ->
            /\ frames' = SetTop([Top EXCEPT !.stack = <<>>])
            /\ UNCHANGED groups
            /\ AstFrame
       [] OTHER ->
            /\ frames' = SetTop([Top EXCEPT !.stack = Rest])
            /\ UNCHANGED groups
            /\ AstFrame

\* the words word_from_ast can return from res and set_start_bounday
Words(f) ==
  LET word == Join(f.res)
  IN IF f.set_start_bounday /\
        (word = "" \/ CharAt(word, 1) \notin CATEGORY_WORD)
       THEN {c \o word : c \in CATEGORY_WORD}
       ELSE {word}

\* the stack is empty: word_from_ast returns, to the SUBPATTERN case of the
\* call below it or to the for loop
AstReturn ==
  /\ rpc = "ast"
  /\ Top.stack = <<>>
  /\ \E word \in Words(Top) :
       IF Len(frames) > 1
         THEN /\ groups' = [g \in DOMAIN groups \cup {Top.group} |->
                              IF g = Top.group THEN word ELSE groups[g]]
              /\ frames' = [SubSeq(frames, 1, Len(frames) - 1) EXCEPT
                              ![Len(frames) - 1].res = Append(@, word)]
              /\ UNCHANGED <<candidate, rpc>>
         ELSE /\ candidate' = Some(word)
              /\ frames' = <<>>
              /\ rpc' = "check"
              /\ UNCHANGED groups
  /\ UNCHANGED <<regex, min_length, attempt, ret>>
  /\ UNCHANGED evars

\* if len(result) >= min_length and re.search(regex, result): return result
Check ==
  /\ rpc = "check"
  /\ IF Accepted(Parse(regex)[1], candidate[1], min_length)
       THEN ret' = candidate /\ rpc' = "returned"
       ELSE rpc' = "for" /\ UNCHANGED ret
  /\ UNCHANGED <<regex, min_length, attempt, groups, frames, candidate>>
  /\ UNCHANGED evars

NextRegex ==
  \/ \E r \in Regexes, m \in MinLengths : CallWordFromRegex(r, m)
  \/ ForNext
  \/ ForEnd
  \/ StepLiteral
  \/ StepBranch
  \/ StepRepeat
  \/ StepSubpattern
  \/ StepGroupref
  \/ StepIn
  \/ StepAt
  \/ AstReturn
  \/ Check

SpecRegex == Init /\ [][NextRegex]_vars

(***************************************************************************)
(* Observers                                                               *)
(***************************************************************************)
OnStack(i) == \E k \in 1..Len(stack) : stack[k] = i

IsSon(i) ==
  \E p \in 1..Len(vals) : \E k \in 1..Len(vals[p].sons) : vals[p].sons[k] = i

\* Value i has been pushed on the stack: it is the root or a son, and it is
\* on the stack, popped, or no longer DELAYED
Pushed(i) ==
  /\ i = 1 \/ IsSon(i)
  /\ \/ vals[i].state # DELAYED
     \/ OnStack(i)
     \/ pc = "popped" /\ val = i

PushedCount == Cardinality({i \in 1..Len(vals) : Pushed(i)})

\* the registry a generator would own: the store_ref names of its own spec
OwnRegistry(g) == parse_specif(gens[g].specif, [k \in {} |-> EmptySpec])

TypeOf(i) ==
  IF vals[i].specification = NoneSpec THEN None
  ELSE SpecNode(vals[i].specification).type

(***************************************************************************)
(* C1: every call of generate() terminates, also on a specification made   *)
(* cyclic through store_ref/load_ref: once the loop is entered it is       *)
(* eventually left.                                                        *)
(***************************************************************************)
\* the load_ref chain from specification id ends within n substitutions
RECURSIVE LoadChainEnds(_, _)
LoadChainEnds(id, n) ==
  \/ id = NoneSpec
  \/ SpecNode(id).load_ref = None
  \/ n > 0 /\ LoadChainEnds(Lookup(GLOBALS, SpecNode(id).load_ref[1]), n - 1)

\* the popped Value is in a load_ref loop without end (C18)
LoadLoop ==
  /\ pc = "popped"
  /\ ~LoadChainEnds(vals[val].specification, Cardinality(DOMAIN GLOBALS))

\* the runs caught in the load_ref loop of one pop are set apart: they are
\* the matter of C18
C1_GenerateTerminates ==
  (pc = "loop") ~> (pc \in {"returned", "raised"} \/ LoadLoop)

(***************************************************************************)
(* C2: a record stored under a name, whose single key loads that name back,*)
(* with max_depth = D gives a chain of exactly D nested records: records   *)
(* at depths 0..D-1, and the Value at depth D TRUNCATED with value null.   *)
(***************************************************************************)
RECURSIVE Chain(_)
Chain(d) ==
  IF d <= 1 THEN Dict(<<>>)
  ELSE Dict(<<[key |-> Str("sub"), val |-> Chain(d - 1)]>>)

\* generate() has returned, for a generator of the self-referential record
SelfRecReturned ==
  /\ pc = "returned"
  /\ gens[cur].specif[1] = "selfrec"

ChainBuilt(D) ==
  /\ result = Chain(D)
  /\ \A d \in 0..(D - 1) :
       \E i \in 1..Len(vals) :
         /\ vals[i].depth = d /\ Pushed(i)
         /\ vals[i].state = DONE /\ vals[i].value = Chain(D - d)
  /\ \E i \in 1..Len(vals) :
       /\ vals[i].depth = D /\ Pushed(i)
       /\ vals[i].state = TRUNCATED /\ vals[i].value = Null
  /\ \A i \in 1..Len(vals) : vals[i].depth <= D

\* the claim, for a generator built without max_size, so that no size
\* budget cuts the chain
C2_ChainOfDepth ==
  SelfRecReturned /\ gens[cur].max_size = None
    => ChainBuilt(gens[cur].specif[2])

(***************************************************************************)
(* C3: with max_size = N, N >= 0, at most N Values (the root included) are *)
(* ever pushed, and overall_size never exceeds N.                          *)
(***************************************************************************)
C3_SizeBudget ==
  cur # 0 /\ gens[cur].max_size # None
    => /\ overall_size <= gens[cur].max_size[1]
       /\ PushedCount <= gens[cur].max_size[1]

(***************************************************************************)
(* C4: the children the size budget did not push are absent from the       *)
(* assembled result: an array's result has as many items as it has pushed  *)
(* children, a record's mapping no more entries than pushed value-children.*)
(***************************************************************************)
C4_CutChildrenAbsent ==
  \A i \in 1..Len(vals) :
    /\ vals[i].state = DONE /\ vals[i].sons # <<>>
    /\ gens[cur].max_size # Some(0)       \* 0 is C3's case
    =>
      LET pushed == {k \in 1..Len(vals[i].sons) : Pushed(vals[i].sons[k])}
      IN /\ TypeOf(i) = Some("array") =>
              Len(vals[i].value.items) = Cardinality(pushed)
         /\ TypeOf(i) = Some("record") =>
              Len(vals[i].value.entries) <= Cardinality(pushed)

(***************************************************************************)
(* C5: generate() never raises: every failure is absorbed as a null value. *)
(***************************************************************************)
C5_NeverRaises == pc # "raised"

(***************************************************************************)
(* C6: in the record's DELAYED step a string chance is decided against the *)
(* names emitted so far in this record: "!flag" is present iff flag has    *)
(* not been emitted, "flag" iff it has; the set grows with each emission.  *)
(***************************************************************************)
\* the names the claimed rule emits, seen being those emitted so far
RECURSIVE ClaimedNames(_, _, _, _)
ClaimedNames(reps, i, draws, seen) ==
  IF i > Len(reps) THEN seen
  ELSE IF Presence(reps[i], {seen[k] : k \in 1..Len(seen)}, draws[i])
    THEN ClaimedNames(reps, i + 1, draws, Append(seen, reps[i].name[1].s))
    ELSE ClaimedNames(reps, i + 1, draws, seen)

LiteralNames(reps) ==
  \A k \in 1..Len(reps) : reps[k].name # None /\ ~reps[k].name[1].isdict

C6_StringChance ==
  \A i \in 1..Len(vals) :
    vals[i].state = TO_BUILD /\ vals[i].value.t = "pairs" =>
      LET reps == Repetitions(Get(SpecNode(vals[i].specification).keys, <<>>), 1)
          pairs == vals[i].value.p
          emitted == [k \in 1..Len(pairs) |-> vals[pairs[k][1]].value.s]
      IN LiteralNames(reps) =>
           \E draws \in [1..Len(reps) -> BOOLEAN] :
             /\ \A k \in 1..Len(reps) : draws[k] \in Draws(reps[k])
             /\ emitted = ClaimedNames(reps, 1, draws, <<>>)

(***************************************************************************)
(* C7: a key named by a string-enum spec and repeated G times gives, when  *)
(* no depth or size budget intervenes, a record of exactly G distinct keys *)
(* whose counters are exactly 0 .. G-1.                                    *)
(***************************************************************************)
EnumRecReturned ==
  /\ pc = "returned"
  /\ gens[cur].specif[1] = "enumrec"
  /\ gens[cur].max_depth >= 2
  /\ \/ gens[cur].max_size = None
     \/ gens[cur].max_size[1] >= 1 + 2 * gens[cur].specif[2]

C7_EnumKeys ==
  EnumRecReturned =>
    LET G == gens[cur].specif[2]
        keys == {result.entries[k].key : k \in 1..Len(result.entries)}
    IN /\ Len(result.entries) = G
       /\ Cardinality(keys) = G
       /\ keys = {Str(Format("key_%04d", n)) : n \in 0..(G - 1)}
       /\ \A k \in 1..Len(result.entries) : result.entries[k].val = Null

C7_Witness ==
  /\ EnumRecReturned
  /\ gens[cur].specif[2] = 3
  /\ {result.entries[k].key : k \in 1..Len(result.entries)} =
       {Str("key_0000"), Str("key_0001"), Str("key_0002")}

(***************************************************************************)
(* C8: the registry belongs to one generator: the names a generator can    *)
(* resolve are exactly the store_ref names of its own specification, and   *)
(* constructing another generator changes no entry an existing one sees.   *)
(***************************************************************************)
C8_RegistryPerGenerator ==
  \A g \in 1..Len(gens) : GLOBALS = OwnRegistry(g)

(***************************************************************************)
(* C9: a popped Value whose load_ref names a reference that no store_ref   *)
(* of the generator's own specification registered has its specification  *)
(* replaced by the empty specification (and so ends DONE with value null). *)
(***************************************************************************)
C9_UnknownRefEmptySpec ==
  [][/\ pc = "popped"
     /\ vals[val].specification # NoneSpec
     /\ SpecNode(vals[val].specification).load_ref # None
     /\ SpecNode(vals[val].specification).load_ref[1]
          \notin DOMAIN OwnRegistry(cur)
     => vals'[val].specification = EmptySpec]_vars

(***************************************************************************)
(* C10: word_from_regex makes at most 200 attempts; a word returned before *)
(* the 200th attempt has length >= min_length and matches the pattern on   *)
(* the re-check; the word returned is always the one made by the latest    *)
(* attempt, and once the 200th attempt has been rejected the next step     *)
(* returns that attempt's word.                                            *)
(***************************************************************************)
C10_RetryLoop ==
  /\ [](/\ attempt <= Attempts
        /\ rpc = "returned" /\ attempt < Attempts =>
             /\ Len(ret[1]) >= min_length
             /\ Search(Parse(regex)[1], ret[1])
        /\ rpc = "returned" => ret = candidate /\ ret # None)
  /\ [][/\ rpc = "check" => candidate' = candidate
        /\ rpc = "for" /\ attempt = Attempts =>
             rpc' = "returned" /\ ret' = candidate]_vars

\* all 200 attempts were rejected and the last word, which the pattern does
\* not match, was returned
C10_Witness ==
  /\ rpc = "returned"
  /\ attempt = Attempts
  /\ ret = candidate
  /\ ~Search(Parse(regex)[1], ret[1])

(***************************************************************************)
(* C11: for a pattern built only from literals, alternation, groups and    *)
(* repetition, every word word_from_regex returns belongs to the pattern's *)
(* language as a whole string: ab|cd gives ab or cd, a* gives repeated a   *)
(* (the empty word included), (st|uv)+ gives non-empty runs of st and uv.  *)
(***************************************************************************)
PlainRegexes == {"ab|cd", "a*", "(st|uv)+", "(?:ab)?c"}

\* re.fullmatch(regex, w) is not None
FullMatch(tree, w) ==
  \E s \in MatchSeq(tree, 1, w, {[pos |-> 0, env |-> [g \in {} |-> ""]]}) :
    s.pos = Len(w)

\* w is made of the two-letter words of pairs, one after the other
RunOf(pairs, w) ==
  /\ Len(w) % 2 = 0
  /\ \A i \in 1..(Len(w) \div 2) : SubSeq(w, 2 * i - 1, 2 * i) \in pairs

\* the languages, spelt out
InLanguage(r, w) ==
  CASE r = "ab|cd" -> w \in {"ab", "cd"}
    [] r = "a*" -> \A i \in 1..Len(w) : CharAt(w, i) = "a"
    [] r = "(st|uv)+" -> Len(w) >= 2 /\ RunOf({"st", "uv"}, w)
    [] r = "(?:ab)?c" -> w \in {"c", "abc"}

C11_WholeStringMember ==
  rpc = "returned" /\ regex \in PlainRegexes =>
    /\ InLanguage(regex, ret[1])
    /\ FullMatch(Parse(regex)[1], ret[1])

C11_Witness ==
  /\ rpc = "returned"
  /\ regex = "(st|uv)+"
  /\ ret = Some("uvst")
  /\ InLanguage(regex, ret[1])


(***************************************************************************)
(* C12: within one generate() a Value's state only moves DELAYED ->        *)
(* TO_BUILD -> DONE, DELAYED -> DONE or DELAYED -> TRUNCATED; a Value that *)
(* is DONE or TRUNCATED is neither on the stack nor the popped Value, so   *)
(* it is never pushed, popped or dispatched again.                         *)
(***************************************************************************)
Forward(s, t) ==
  \/ s = t
  \/ <<s, t>> \in {<<DELAYED, TO_BUILD>>, <<TO_BUILD, DONE>>,
                   <<DELAYED, DONE>>, <<DELAYED, TRUNCATED>>}

\* a step inside one call of generate()
InGenerate == pc \in {"loop", "popped"}

C12_StateForward ==
  /\ [](\A i \in 1..Len(vals) :
          vals[i].state \in {DONE, TRUNCATED} =>
            ~OnStack(i) /\ ~(pc = "popped" /\ val = i))
  /\ [][InGenerate =>
          /\ Len(vals') >= Len(vals)
          /\ \A i \in 1..Len(vals) : Forward(vals[i].state, vals'[i].state)
          /\ \A i \in (Len(vals) + 1)..Len(vals') :
               vals'[i].state \in {DELAYED, DONE}]_vars

\* a record went through TO_BUILD to DONE while a child of it was TRUNCATED
C12_Witness ==
  /\ pc = "returned"
  /\ \E i, j \in 1..Len(vals) :
       /\ vals[i].state = DONE /\ TypeOf(i) = Some("record")
       /\ \E k \in 1..Len(vals[i].sons) : vals[i].sons[k] = j
       /\ vals[j].state = TRUNCATED


(***************************************************************************)
(* C13: the root has depth 0 and every Value a record or array handler     *)
(* creates has its parent's depth plus 1; a step that replaces a Value's   *)
(* specification (load_ref substitution, generate_choice) leaves its       *)
(* depth, state and scope as they were.                                    *)
(***************************************************************************)
C13_Depths ==
  /\ [](/\ vals # <<>> => vals[1].depth = 0
        /\ \A i \in 1..Len(vals) : \A k \in 1..Len(vals[i].sons) :
             vals[vals[i].sons[k]].depth = vals[i].depth + 1)
  /\ [][InGenerate =>
          /\ \A j \in (Len(vals) + 1)..Len(vals') :
               /\ pc = "popped"
               /\ TypeOf(val) \in {Some("record"), Some("array")}
               /\ vals'[j].depth = vals[val].depth + 1
          /\ \A i \in 1..Len(vals) :
               /\ vals'[i].depth = vals[i].depth
               /\ vals'[i].scope = vals[i].scope
               /\ vals'[i].specification # vals[i].specification =>
                    vals'[i].state = vals[i].state]_vars

\* an array at depth 1, whose specification came by load_ref substitution,
\* with its elements at depth 2
C13_Witness ==
  /\ pc = "returned"
  /\ \E i, j \in 1..Len(vals) :
       /\ vals[i].depth = 1 /\ TypeOf(i) = Some("array")
       /\ vals[i].sons # <<>> /\ vals[i].sons[1] = j
       /\ vals[j].depth = 2


(***************************************************************************)
(* C14: when a composite Value in state TO_BUILD is popped for its         *)
(* assemble step, every child of it that was pushed has been popped and is *)
(* DONE or TRUNCATED, and none of its descendants is on the stack.         *)
(***************************************************************************)
RECURSIVE Descendants(_)
Descendants(i) ==
  LET sons == {vals[i].sons[k] : k \in 1..Len(vals[i].sons)}
  IN sons \cup UNION {Descendants(j) : j \in sons}

PoppedToBuild == pc = "popped" /\ vals[val].state = TO_BUILD

C14_ChildrenFirst ==
  PoppedToBuild =>
    /\ \A j \in Descendants(val) : ~OnStack(j)
    /\ \A k \in 1..Len(vals[val].sons) :
         Pushed(vals[val].sons[k]) =>
           vals[vals[val].sons[k]].state \in {DONE, TRUNCATED}

\* a composite at depth 1 is popped for its assemble step, its pushed
\* children settled, while its parent still waits on the stack
C14_Witness ==
  /\ PoppedToBuild
  /\ vals[val].depth = 1
  /\ stack # <<>>
  /\ Len(vals[val].sons) >= 2
  /\ \A k \in 1..Len(vals[val].sons) : Pushed(vals[val].sons[k])


(***************************************************************************)
(* C15: a composite (record or array) Value reaches DONE only when every   *)
(* child of it that was pushed is in state DONE.                           *)
(***************************************************************************)
CompositeDone(i) ==
  /\ vals[i].state = DONE
  /\ TypeOf(i) \in {Some("record"), Some("array")}

PushedSonsIn(i, states) ==
  \A k \in 1..Len(vals[i].sons) :
    Pushed(vals[i].sons[k]) => vals[vals[i].sons[k]].state \in states

C15_PushedChildrenDone ==
  \A i \in 1..Len(vals) : CompositeDone(i) => PushedSonsIn(i, {DONE})

\* C15 with the children that depth truncation ended: every pushed child is
\* DONE or TRUNCATED
C15_PushedChildrenTerminal ==
  \A i \in 1..Len(vals) : CompositeDone(i) => PushedSonsIn(i, {DONE, TRUNCATED})

\* a DONE composite with a pushed child that is DONE and whose own pushed
\* child is TRUNCATED
C15_Witness ==
  \E i, j, t \in 1..Len(vals) :
    /\ CompositeDone(i) /\ CompositeDone(j)
    /\ vals[i].sons # <<>> /\ vals[i].sons[1] = j
    /\ vals[j].sons # <<>> /\ vals[j].sons[1] = t
    /\ Pushed(t) /\ vals[t].state = TRUNCATED


(***************************************************************************)
(* C16: a popped Value whose depth is >= its effective max depth (the      *)
(* resolved specification's own max_depth if it has one, else the          *)
(* generator's) is set TRUNCATED with value null, no handler is invoked    *)
(* and no child is created; so no handler ever runs on such a Value.       *)
(***************************************************************************)
\* the popped Value's specification is resolved and its depth is at or
\* beyond the effective max depth
AtMaxDepth ==
  /\ pc = "popped"
  /\ vals[val].specification # NoneSpec
  /\ SpecNode(vals[val].specification).load_ref = None
  /\ LET own == SpecNode(vals[val].specification).max_depth
     IN vals[val].depth >= (IF own # None THEN own[1] ELSE gens[cur].max_depth)

C16_TruncatedAtMaxDepth ==
  [][AtMaxDepth =>
       /\ vals' = [vals EXCEPT ![val].state = TRUNCATED, ![val].value = Null]
       /\ vals[val].state = DELAYED
       /\ UNCHANGED <<stack, scopes, overall_size, log, GLOBALS>>
       /\ pc' = "loop"]_vars

\* a record's own max_depth truncated a Value that the generator's max_depth
\* would have let through
C16_Witness ==
  /\ pc = "returned"
  /\ \E i \in 1..Len(vals) :
       /\ vals[i].state = TRUNCATED /\ vals[i].value = Null
       /\ vals[i].sons = <<>>
       /\ vals[i].depth < gens[cur].max_depth
       /\ SpecNode(vals[i].specification).max_depth # None


(***************************************************************************)
(* C17  generate_choice against the cumulative rule                        *)
(***************************************************************************)
\* roll r < p / n in exact arithmetic, for 1 <= n <= 25: a roll
\* whole - below * 2^-46 with below > 0 lies under p / n iff whole <= p / n
RollBelow(r, p, n) ==
  IF r.below = 0 THEN r.whole * n < p ELSE r.whole * n <= p

\* len(options) * (c_1 + ... + c_i), where an omitted c is 100 / len(options)
RECURSIVE ChancesUpTo(_, _)
ChancesUpTo(options, i) ==
  IF i = 0 THEN 0
  ELSE ChancesUpTo(options, i - 1)
         + (IF options[i].chance = None THEN 100
            ELSE options[i].chance[1] * Len(options))

\* the options o_i with c_1 + ... + c_(i-1) <= r < c_1 + ... + c_i
ClaimedOptions(options, r) ==
  {i \in 1..Len(options) :
     /\ ~RollBelow(r, ChancesUpTo(options, i - 1), Len(options))
     /\ RollBelow(r, ChancesUpTo(options, i), Len(options))}

ClaimedChoice(vs, v, r) ==
  LET options == Get(SpecNode(vs[v].specification).options, <<>>)
      claimed == ClaimedOptions(options, r)
  IN IF claimed # {}
       THEN [vs EXCEPT ![v].specification =
                         Get(options[CHOOSE i \in claimed : TRUE].value,
                             NoneSpec)]
       ELSE [vs EXCEPT ![v].value = Null, ![v].state = DONE]

\* C17: whenever a choice node is dispatched to generate_choice, for every
\* roll r the handler leaves the node as the cumulative rule says: the
\* specification of the option o_i with c_1+...+c_(i-1) <= r < c_1+...+c_i,
\* state still DELAYED, and null with state DONE iff r >= c_1+...+c_n; in
\* particular never null when n >= 1 and every chance is omitted.
C17_ChoiceRule ==
  Dispatched("generate_choice") =>
    LET options == Get(SpecNode(vals[val].specification).options, <<>>)
    IN /\ \A r \in Rolls :
            generate_choice(vals, val, r) = ClaimedChoice(vals, val, r)
       /\ (Len(options) >= 1 /\ \A i \in 1..Len(options) :
                                   options[i].chance = None)
            => \A r \in Rolls : generate_choice(vals, val, r)[val].state # DONE


(***************************************************************************)
(* C18  the load_ref loop of a popped Value                                *)
(***************************************************************************)
\* C18: the load_ref loop run on a popped Value always ends: after finitely
\* many substitutions the Value holds a specification without load_ref (or
\* generate has left the loop by raising).
C18_LoadLoopTerminates ==
  (pc = "popped") ~> (Resolved \/ pc # "popped")


(***************************************************************************)
(* C19: a repetition with bounds (min, max), min <= max, emits its         *)
(* sub-pattern k times with min <= k <= max: while the remaining minimum   *)
(* is > 0 it goes on, once the remaining maximum is 0 it emits no more,    *)
(* and each emission takes one from both remaining bounds.                 *)
(***************************************************************************)
RECURSIVE RepeatsIn(_)
\* the repetition constructs of a parsed pattern, nested ones included
RepeatsIn(seq) ==
  UNION {CASE seq[i].op \in {"MAX_REPEAT", "MIN_REPEAT"} ->
                {seq[i]} \cup RepeatsIn(seq[i].subpattern)
           [] seq[i].op = "SUBPATTERN" -> RepeatsIn(seq[i].subpattern)
           [] seq[i].op = "BRANCH" ->
                UNION {RepeatsIn(seq[i].alternatives[k]) :
                         k \in 1..Len(seq[i].alternatives)}
           [] OTHER -> {} : i \in 1..Len(seq)}

\* n is what is left of the repetition o after k emissions, k <= o.max_
RemainderOf(n, o) ==
  /\ n.subpattern = o.subpattern
  /\ o.min_ - n.min_ >= 0
  /\ o.min_ - n.min_ <= o.max_
  /\ n.max_ = o.max_ - (o.min_ - n.min_)

\* the stack after one more emission of the popped repetition
Emitted ==
  rev_append(Append(Rest, MAX_REPEAT(Node.min_ - 1, Node.max_ - 1,
                                     Node.subpattern)),
             Node.subpattern)

C19_RepeatWithinBounds ==
  /\ [](\A f \in 1..Len(frames) : \A j \in 1..Len(frames[f].stack) :
          frames[f].stack[j].op = "MAX_REPEAT" =>
            \E o \in RepeatsIn(Get(Parse(regex), <<>>)) :
              RemainderOf(frames[f].stack[j], o))
  /\ [](rpc = "check" =>
          /\ regex = "a{1,2}b" => candidate[1] \in {"ab", "aab"}
          /\ regex = "(?:ab)?c" => candidate[1] \in {"c", "abc"}
          /\ regex = "(st|uv)+" => Len(candidate[1]) >= 2)
  /\ [][Popped({"MAX_REPEAT", "MIN_REPEAT"}) =>
          /\ Top'.stack \in {Rest, Emitted}
          /\ Node.min_ > 0 => Top'.stack = Emitted
          /\ Node.max_ <= 0 => Top'.stack = Rest
          /\ Top'.res = Top.res]_vars

\* a{1,2}b has emitted a as often as its maximum allows, and stopped
C19_Witness ==
  /\ rpc = "check"
  /\ regex = "a{1,2}b"
  /\ candidate = Some("aab")


(***************************************************************************)
(* C20: enumeration counters belong to one composite instance: a record or *)
(* array gives its children one fresh Scope, every counter of which starts *)
(* at 0, so the enum values under a composite do not depend on the enums   *)
(* made under a sibling composite, an ancestor or an earlier generate().   *)
(***************************************************************************)
Patterns == {"key_%04d", "%d"}

\* Value i is a finished string of generate_string_enum with pattern p
EnumDone(i, p) ==
  /\ vals[i].state = DONE
  /\ vals[i].specification # NoneSpec
  /\ Callback(SpecNode(vals[i].specification).type,
              SpecNode(vals[i].specification).method) = "generate_string_enum"
  /\ Get(SpecNode(vals[i].specification).pattern, "%d") = p

\* the finished enums of pattern p among the Values that hold Scope s
EnumsOf(s, p) == {i \in 1..Len(vals) : vals[i].scope = s /\ EnumDone(i, p)}

\* the composites that have made children
Parents == {i \in 1..Len(vals) : vals[i].sons # <<>>}

C20_ScopePerComposite ==
  /\ [](/\ \A i \in Parents : \A k \in 1..Len(vals[i].sons) :
             /\ vals[vals[i].sons[k]].scope \in 1..Len(scopes)
             /\ vals[vals[i].sons[k]].scope = vals[vals[i].sons[1]].scope
        /\ \A i \in Parents : \A j \in Parents :
             i # j => vals[vals[i].sons[1]].scope # vals[vals[j].sons[1]].scope
        /\ \A s \in 1..Len(scopes) : \A p \in Patterns :
             /\ ScopeCount(scopes[s], p) = Cardinality(EnumsOf(s, p))
             /\ {vals[i].value : i \in EnumsOf(s, p)} =
                  {Str(Format(p, n)) : n \in 0..(Cardinality(EnumsOf(s, p)) - 1)})
  /\ [][/\ pc = "popped" /\ Len(vals') > Len(vals) =>
             /\ scopes' = Append(scopes, NewScope)
             /\ \A j \in (Len(vals) + 1)..Len(vals') :
                  vals'[j].state = DELAYED => vals'[j].scope = Len(scopes')
        /\ pc = "idle" /\ pc' = "loop" => scopes' = <<>> /\ vals'[1].scope = 0
       ]_vars

\* enumnest has returned: the two arrays, siblings under the record, each
\* hold key_0001 and key_0000 (the last element is popped first), while the
\* record's own Scope has counted its three enums of that pattern
C20_Witness ==
  /\ pc = "returned"
  /\ gens[cur].specif = <<"enumnest", 0>>
  /\ \E a \in Parents : \E b \in Parents :
       /\ a # b
       /\ vals[a].depth = 1 /\ vals[b].depth = 1
       /\ vals[a].value = List(<<Str("key_0001"), Str("key_0000")>>)
       /\ vals[b].value = vals[a].value
       /\ vals[a].scope = vals[b].scope
       /\ ScopeCount(scopes[vals[a].scope], "key_%04d") = 3
       /\ ScopeCount(scopes[vals[vals[a].sons[1]].scope], "key_%04d") = 2


(***************************************************************************)
(* C21: generate() leaves the generator's specification and the registry   *)
(* as they are: load_ref substitution and generate_choice rebind only the  *)
(* specification reference of the Value in hand, so every generate() call  *)
(* on a generator starts from the same specification, the same registry    *)
(* and overall_size = 1.                                                   *)
(***************************************************************************)
\* generate() is running, or has just returned or raised
Generating == pc \in {"loop", "popped", "returned", "raised"}

C21_GenerateFrame ==
  [][/\ Generating => GLOBALS' = GLOBALS /\ gens' = gens
     /\ pc = "popped" =>
          \A i \in 1..Len(vals) :
            i # val => vals'[i].specification = vals[i].specification
     /\ pc = "idle" /\ pc' = "loop" =>
          /\ GLOBALS' = GLOBALS /\ gens' = gens
          /\ vals' = <<Value(gens[cur'].specif, DELAYED, Null, 0, 0)>>
          /\ stack' = <<1>>
          /\ overall_size' = 1]_vars

\* generate() has returned after generate_choice rebound the root Value to
\* its second option: the generator still holds the choice, and the registry
\* is the one its constructor left
C21_Witness ==
  /\ pc = "returned"
  /\ gens[cur].specif = <<"choice2", 0>>
  /\ vals[1].specification = <<"fixb", 0>>
  /\ result = Str("b")
  /\ GLOBALS = OwnRegistry(cur)


(***************************************************************************)
(* C22: depth truncation shows differently in the two composites.  The     *)
(* record leaves out of its mapping every pair whose name or value ended   *)
(* TRUNCATED: the key is absent, not mapped to null.  The array keeps one  *)
(* position for each element it made and holds null where the element      *)
(* ended TRUNCATED, so its length is the length drawn in its DELAYED step. *)
(***************************************************************************)
\* the pairs of the record in hand whose name and value are both DONE
KeptPairs ==
  {k \in 1..Len(vals[val].value.p) :
     /\ vals[vals[val].value.p[k][1]].state = DONE
     /\ vals[vals[val].value.p[k][2]].state = DONE}

\* generate_record is about to assemble the record in hand
RecordBuilds ==
  /\ Dispatched("generate_record")
  /\ vals[val].state = TO_BUILD
  /\ ~Unhashable(vals, vals[val].value.p)

\* the array Value i has been assembled
ArrayBuilt(i) ==
  /\ vals[i].state = DONE
  /\ TypeOf(i) = Some("array")
  /\ vals[i].value.t = "list"

C22_TruncationInComposites ==
  /\ [](\A i \in 1..Len(vals) :
          /\ ArrayBuilt(i) =>
               /\ Len(vals[i].value.items) = Len(vals[i].sons)
               /\ \A k \in 1..Len(vals[i].sons) :
                    vals[vals[i].sons[k]].state = TRUNCATED =>
                      vals[i].value.items[k] = Null
          /\ vals[i].state = TO_BUILD /\ TypeOf(i) = Some("array") =>
               /\ Len(vals[i].sons) >= ArrayMinLength(vals[i].specification)
               /\ Len(vals[i].sons) <= ArrayMaxLength(vals[i].specification))
  /\ [][RecordBuilds =>
          LET pairs == vals[val].value.p
              entries == vals'[val].value.entries
          IN /\ vals'[val].state = DONE
             /\ \A e \in 1..Len(entries) : \E k \in KeptPairs :
                  /\ entries[e].key = vals[pairs[k][1]].value
                  /\ entries[e].val \in {vals[pairs[j][2]].value : j \in KeptPairs}
             /\ \A k \in KeptPairs : \E e \in 1..Len(entries) :
                  entries[e].key = vals[pairs[k][1]].value
             /\ \A k \in 1..Len(pairs) :
                  TRUNCATED \in {vals[pairs[k][1]].state, vals[pairs[k][2]].state}
                    => \/ \E j \in KeptPairs :
                            vals[pairs[j][1]].value = vals[pairs[k][1]].value
                       \/ \A e \in 1..Len(entries) :
                            entries[e].key # vals[pairs[k][1]].value]_vars

\* mixrec has returned with max_depth 2: the keys b and null, whose value or
\* name was cut at depth 1, are absent, and the array under c holds null at
\* the two positions cut at depth 2
C22_Witness ==
  /\ pc = "returned"
  /\ gens[cur].specif = <<"mixrec", 0>>
  /\ \E i \in 1..Len(vals) : vals[i].state = TRUNCATED /\ vals[i].depth = 1
  /\ \E i \in 1..Len(vals) : vals[i].state = TRUNCATED /\ vals[i].depth = 2
  /\ result = Dict(<<[key |-> Str("a"), val |-> Str("a")],
                     [key |-> Str("c"), val |-> List(<<Null, Null>>)]>>)


(***************************************************************************)
(* C23: the children of a composite are evaluated in the reverse of their  *)
(* declared order, the last pushed being popped first; so an array of L    *)
(* string-enum elements of one pattern, none cut by a budget, holds the    *)
(* counter L-1-i at index i: L-1, ..., 0 from first to last.               *)
(***************************************************************************)
\* the array Value i has been assembled from enum elements of pattern p,
\* every one of them evaluated
EnumArrayBuilt(i, p) ==
  /\ ArrayBuilt(i)
  /\ \A k \in 1..Len(vals[i].sons) : EnumDone(vals[i].sons[k], p)

C23_ReverseOrder ==
  /\ [](\A i \in 1..Len(vals) : \A p \in Patterns :
          EnumArrayBuilt(i, p) =>
            \A k \in 1..Len(vals[i].sons) :
              vals[i].value.items[k] =
                Str(Format(p, Len(vals[i].sons) - k)))
  /\ [][/\ pc = "loop" /\ stack # <<>> =>
             /\ val' = stack[Len(stack)]
             /\ stack' = SubSeq(stack, 1, Len(stack) - 1)
        /\ pc = "popped" /\ vals[val].state = DELAYED
             /\ vals'[val].state = TO_BUILD =>
             \E n \in 0..Len(vals'[val].sons) :
               stack' = Append(stack, val) \o SubSeq(vals'[val].sons, 1, n)
       ]_vars

\* enumarr has returned an array of three elements: key_0002, key_0001,
\* key_0000
C23_Witness ==
  /\ pc = "returned"
  /\ gens[cur].specif = <<"enumarr", 0>>
  /\ EnumArrayBuilt(1, "key_%04d")
  /\ result = List(<<Str("key_0002"), Str("key_0001"), Str("key_0000")>>)
====
